---- MODULE Spec2Model ----
(***************************************************************************)
(* Model of ib_insync/ibcontroller.py: the process controller (IBC /       *)
(* IBController: startAsync, terminateAsync, monitorAsync) and the         *)
(* Watchdog (start, stop, scheduleRestart, onApiError, onError,            *)
(* watchAsync) on a single-threaded event loop with nested synchronous     *)
(* waits (util.syncAwait, IB.sleep, IB.connect).                           *)
(*                                                                         *)
(* A synchronous call that waits (controller.start(), controller.terminate *)
(* (), IB.sleep(), ib.connect()) keeps a frame on `stack`; while it waits  *)
(* the loop runs other callbacks and tasks, which push their own frames    *)
(* on top.  A coroutine (startAsync, terminateAsync, connectAsync) may     *)
(* advance at any depth, but its synchronous caller resumes only when its  *)
(* frame is the top of the stack.                                          *)
(***************************************************************************)
EXTENDS Integers, Sequences, FiniteSets, TLC

VARIABLES
    cfg,          \* Watchdog configuration: controller, appTimeout, retryDelay
    constructed,  \* "no" | "ok" | "failed": outcome of Watchdog.__init__
    apiError,     \* ib.client.apiError is set to Watchdog.onApiError
    errorCb,      \* the 'error' callback is set to Watchdog.onError
    watcher,      \* Watchdog._watcher task: "none" | "wait" | "probe" | "stop" | "dead"
    probeRem,     \* seconds left of asyncio.wait_for(probe, 4)
    proc,         \* controller._proc: 0 is None, else a process id
    monitor,      \* controller._monitor: 0 is None, else a monitor task id
    procState,    \* process id -> "none" | "running" | "terminating" | "exited"
    monState,     \* the task _monitor refers to: "none" | "running" | "done"
    connected,    \* the client is connected
    timeout,      \* idle timeout armed by ib.setTimeout (0: not armed)
    timers,       \* pending loop.call_later(retryDelay, self.start) callbacks
    stack,        \* frames of the synchronous calls that are waiting
    evt,          \* the operation performed by the last step
    lim,          \* bounds of the exploration: stack depth, timers, processes
    faults        \* faults the environment may still inject (-1: any number)

vars == <<cfg, constructed, apiError, errorCb, watcher, probeRem, proc, monitor,
          procState, monState, connected, timeout, timers, stack, evt, lim,
          faults>>

(* Bounds of the model: of Spec, and of SpecRace (overlapping handlers). *)
MaxProcs == 1
MaxStack == 1
MaxTimers == 1
RaceProcs == 2
RaceStack == 2
RaceTimers == 2
MaxRetryDelay == 2
MaxFaults == 2

(* Program constants. *)
FatalCode == 1100
ProbeBound == 4
AppTimeoutLimit == 60
DefaultAppTimeout == 20
DefaultRetryDelay == 1

Procs == 1..lim.procs
ErrorCodes == {FatalCode, 2104}

(***************************************************************************)
(* The state as a record, so that synchronous code is a composition of     *)
(* functions on it.  `exc` is the exception in flight (not a variable).    *)
(***************************************************************************)
State ==
    [cfg |-> cfg, constructed |-> constructed, apiError |-> apiError,
     errorCb |-> errorCb, watcher |-> watcher, probeRem |-> probeRem,
     proc |-> proc, monitor |-> monitor, procState |-> procState,
     monState |-> monState, connected |-> connected, timeout |-> timeout,
     timers |-> timers, stack |-> stack, evt |-> evt, lim |-> lim,
     faults |-> faults, exc |-> FALSE]

Awaited(s, p) ==
    \E i \in 1..Len(s.stack) : s.stack[i].pc = "wait" /\ s.stack[i].p = p

(* An exited process that nothing refers to is forgotten (its id is free). *)
ReapProcs(s) ==
    [p \in Procs |->
        IF s.procState[p] = "exited" /\ s.proc # p /\ ~Awaited(s, p)
        THEN "none" ELSE s.procState[p]]

Commit(s) ==
    /\ Len(s.stack) <= lim.stack
    /\ Len(s.timers) <= lim.timers
    /\ cfg' = s.cfg
    /\ constructed' = s.constructed
    /\ apiError' = s.apiError
    /\ errorCb' = s.errorCb
    /\ watcher' = s.watcher
    /\ probeRem' = s.probeRem
    /\ proc' = s.proc
    /\ monitor' = s.monitor
    /\ procState' = ReapProcs(s)
    /\ monState' = s.monState
    /\ connected' = s.connected
    /\ timeout' = s.timeout
    /\ timers' = s.timers
    /\ stack' = s.stack
    /\ evt' = s.evt
    /\ lim' = lim
    /\ faults' = s.faults

(* A step taken by the environment on its own account (a call by the      *)
(* owner, a failure of the application or of the connection) uses up one   *)
(* of the faults the environment has left.                                 *)
Faulty == faults # 0

Fault(s) == [s EXCEPT !.faults = IF @ > 0 THEN @ - 1 ELSE @]

(* The step's label: the operation, its argument, whether it raised. *)
Event(s, op, arg) ==
    [s EXCEPT !.evt = [op |-> op, arg |-> arg, raised |-> s.exc]]

Push(s, kind, pc, p) ==
    [s EXCEPT !.stack = Append(@, [kind |-> kind, pc |-> pc, p |-> p])]

Pop(s) == [s EXCEPT !.stack = SubSeq(@, 1, Len(@) - 1)]

SetPc(s, i, pc) == [s EXCEPT !.stack[i].pc = pc]

Top(s) == s.stack[Len(s.stack)]

(***************************************************************************)
(* Watchdog.__init__                                                       *)
(***************************************************************************)
ValidConfigInclusive(c) ==
    /\ c.controller # 0
    /\ 0 < c.appTimeout /\ c.appTimeout <= AppTimeoutLimit
    /\ c.retryDelay > 0

(* assert self.controller; assert 0 < self.appTimeout < 60;                *)
(* assert self.retryDelay > 0                                              *)
ValidConfig(c) ==
    /\ c.controller # 0
    /\ 0 < c.appTimeout /\ c.appTimeout < AppTimeoutLimit
    /\ c.retryDelay > 0

WatchdogInit(s) ==
    IF ValidConfig(s.cfg)
    THEN [s EXCEPT !.apiError = TRUE, !.errorCb = TRUE, !.watcher = "wait",
                   !.constructed = "ok"]
    ELSE [s EXCEPT !.constructed = "failed", !.exc = TRUE]

(***************************************************************************)
(* The client (ib): disconnect, setTimeout.                                *)
(***************************************************************************)
disconnect(s) == [s EXCEPT !.connected = FALSE, !.timeout = 0]

setTimeout(s, seconds) == [s EXCEPT !.timeout = seconds]

(***************************************************************************)
(* Watchdog.scheduleRestart                                                *)
(* loop.call_later(self.retryDelay, self.start).  A timer records the      *)
(* seconds left (rem), the seconds since it was scheduled (age, up to      *)
(* retryDelay) and whether the watch loop had a probe or its failure path  *)
(* in progress when it was scheduled (probe).                              *)
(***************************************************************************)
restartForgotten(s) == s

restartAtOnce(s) ==
    [s EXCEPT !.timers = Append(@, [rem |-> 0, age |-> 0,
                                    probe |-> s.watcher \in {"probe", "stop"}])]

scheduleRestart(s) ==
    [s EXCEPT !.timers = Append(@, [rem |-> s.cfg.retryDelay, age |-> 0,
                                    probe |-> s.watcher \in {"probe", "stop"}])]

(***************************************************************************)
(* IBC.terminateAsync / IBController.terminateAsync                        *)
(***************************************************************************)
AlwaysStarted(pr) == FALSE

NotStarted(pr) == pr = 0

(* self._proc = None; self._monitor.cancel(); self._monitor = None *)
terminateFinish(s) ==
    IF s.monitor = 0
    THEN [s EXCEPT !.proc = 0, !.exc = TRUE]
    ELSE [s EXCEPT !.proc = 0, !.monitor = 0, !.monState = "none"]

(***************************************************************************)
(* What a handler does once controller.terminate() has returned or raised. *)
(* An exception leaves the handler: scheduleRestart() is not reached, and   *)
(* out of watchAsync it ends the watch task.                               *)
(***************************************************************************)
AfterStop(s, kind) ==
    CASE kind \in {"stop", "stopAsync"} -> s
      [] kind = "watchAsync" ->
            IF s.exc THEN [s EXCEPT !.watcher = "dead"]
            ELSE [scheduleRestart(s) EXCEPT !.watcher = "wait"]
      [] OTHER ->
            IF s.exc THEN s ELSE scheduleRestart(s)

(***************************************************************************)
(* controller.terminate() called by `kind` (stop, onApiError, onError,     *)
(* watchAsync): terminateAsync up to the first point where it waits.       *)
(* terminate() on None raises; on a process that has exited it raises      *)
(* ProcessLookupError, which is suppressed together with the wait.         *)
(***************************************************************************)
terminateUnsuppressed(s, kind) ==
    IF NotStarted(s.proc) THEN AfterStop(s, kind)
    ELSE IF s.proc = 0 \/ s.procState[s.proc] = "exited"
         THEN AfterStop([s EXCEPT !.exc = TRUE], kind)
         ELSE LET w == Push([s EXCEPT !.procState[s.proc] = "terminating"],
                            kind, "wait", s.proc)
              IN IF kind = "watchAsync" THEN [w EXCEPT !.watcher = "stop"] ELSE w

terminateAsync(s, kind) ==
    IF NotStarted(s.proc) THEN AfterStop(s, kind)
    ELSE IF s.proc = 0 THEN AfterStop([s EXCEPT !.exc = TRUE], kind)
    ELSE IF s.procState[s.proc] = "exited"
         THEN AfterStop(terminateFinish(s), kind)
         ELSE LET w == Push([s EXCEPT !.procState[s.proc] = "terminating"],
                            kind, "wait", s.proc)
              IN IF kind = "watchAsync" THEN [w EXCEPT !.watcher = "stop"] ELSE w

(***************************************************************************)
(* Watchdog.stop                                                           *)
(***************************************************************************)
stop(s, kind) == terminateAsync(disconnect(s), kind)

(***************************************************************************)
(* IBController.stopAsync up to the first point where it waits; `ini`      *)
(* tells whether IbControllerPort can be read from the ini file.           *)
(***************************************************************************)
stopAsync(s, ini) ==
    IF NotStarted(s.proc) THEN s
    ELSE IF s.proc = 0 \/ ~ini THEN [s EXCEPT !.exc = TRUE]
    ELSE Push(s, "stopAsync", "open", 0)

stopAsyncClearsFirst(s, i) ==
    IF s.proc = 0 THEN SetPc(s, i, "raised")
    ELSE LET f == terminateFinish(s)
         IN [SetPc(f, i, IF f.exc THEN "raised" ELSE "done") EXCEPT !.exc = FALSE]

(* writer.close(); await self._proc.wait(); then lines 280-282 *)
stopAsyncWait(s, i) ==
    IF s.proc = 0 THEN SetPc(s, i, "raised")
    ELSE IF s.procState[s.proc] = "exited"
         THEN LET f == terminateFinish(s)
              IN [SetPc(f, i, IF f.exc THEN "raised" ELSE "done") EXCEPT !.exc = FALSE]
         ELSE [s EXCEPT !.procState[s.proc] = "terminating",
                        !.stack[i] = [kind |-> "stopAsync", pc |-> "wait",
                                      p |-> s.proc]]

onApiError(s) == stop(s, "onApiError")

IsFatalFrom(errorCode) == errorCode >= FatalCode

IsFatal(errorCode) == errorCode = FatalCode

onError(s, errorCode) == IF IsFatal(errorCode) THEN stop(s, "onError") ELSE s

(***************************************************************************)
(* Watchdog.watchAsync: the probe has come back with bars (TRUE) or has    *)
(* come back empty, raised or timed out (FALSE).                           *)
(***************************************************************************)
probedAlwaysRestarts(s, bars) ==
    stop([s EXCEPT !.probeRem = 0], "watchAsync")

probed(s, bars) ==
    LET w == [s EXCEPT !.probeRem = 0] IN
    IF bars
    THEN [setTimeout(w, w.cfg.appTimeout) EXCEPT !.watcher = "wait"]
    ELSE stop(w, "watchAsync")

(***************************************************************************)
(* IBC.startAsync / IBController.startAsync and Watchdog.start             *)
(***************************************************************************)
NeverStarted(pr) == FALSE

AlreadyStarted(pr) == pr # 0

start(s) ==
    IF AlreadyStarted(s.proc)
    THEN Push(s, "start", "sleep", 0)
    ELSE Push(s, "start", "spawn", 0)

FreeIds(s) == {p \in Procs : s.procState[p] = "none"}

MinOf(S) == CHOOSE x \in S : \A y \in S : x <= y

spawnedWithoutMonitor(s, i) ==
    LET p == MinOf(FreeIds(s)) IN
    SetPc([s EXCEPT !.proc = p, !.procState[p] = "running"], i, "sleep")

(* self._proc = <new process>; self._monitor = ensure_future(monitorAsync()) *)
spawned(s, i) ==
    LET p == MinOf(FreeIds(s)) IN
    SetPc([s EXCEPT !.proc = p, !.monitor = p,
                    !.procState[p] = "running", !.monState = "running"],
          i, "sleep")

(***************************************************************************)
(* Initial state: a constructed Watchdog with the default configuration.   *)
(***************************************************************************)
DefaultConfig ==
    [controller |-> 1, appTimeout |-> DefaultAppTimeout,
     retryDelay |-> DefaultRetryDelay]

Blank(c, l) ==
    [cfg |-> c, lim |-> l, constructed |-> "no", apiError |-> FALSE, errorCb |-> FALSE,
     watcher |-> "none", probeRem |-> 0, proc |-> 0, monitor |-> 0,
     procState |-> [p \in 1..l.procs |-> "none"],
     monState |-> "none",
     connected |-> FALSE, timeout |-> 0, timers |-> <<>>, stack |-> <<>>,
     evt |-> [op |-> "init", arg |-> 0, raised |-> FALSE], faults |-> -1,
     exc |-> FALSE]

Is(s) ==
    /\ cfg = s.cfg
    /\ constructed = s.constructed
    /\ apiError = s.apiError
    /\ errorCb = s.errorCb
    /\ watcher = s.watcher
    /\ probeRem = s.probeRem
    /\ proc = s.proc
    /\ monitor = s.monitor
    /\ procState = s.procState
    /\ monState = s.monState
    /\ connected = s.connected
    /\ timeout = s.timeout
    /\ timers = s.timers
    /\ stack = s.stack
    /\ evt = s.evt
    /\ lim = s.lim
    /\ faults = s.faults

Init ==
    Is(WatchdogInit(Blank(DefaultConfig,
        [stack |-> MaxStack, timers |-> MaxTimers, procs |-> MaxProcs])))

InitRace ==
    Is(WatchdogInit(Blank(DefaultConfig,
        [stack |-> RaceStack, timers |-> RaceTimers, procs |-> RaceProcs])))

(* A started Watchdog in an environment that injects MaxFaults faults.     *)
InitLive ==
    Is([WatchdogInit(Blank(DefaultConfig,
            [stack |-> 2 * MaxFaults + 2, timers |-> MaxFaults + 1,
             procs |-> MaxFaults + 2]))
        EXCEPT !.faults = MaxFaults])

(***************************************************************************)
(* Before construction: any configuration, valid or not.                   *)
(***************************************************************************)
Configs ==
    [controller : {0, 1},
     appTimeout : -1..(AppTimeoutLimit + 1),
     retryDelay : -1..MaxRetryDelay]

InitCtor ==
    \E c \in Configs :
        Is(Blank(c, [stack |-> MaxStack, timers |-> MaxTimers, procs |-> MaxProcs]))

(***************************************************************************)
(* Actions                                                                 *)
(***************************************************************************)

(* Watchdog(controller, appTimeout=..., retryDelay=...) *)
Construct ==
    /\ constructed = "no"
    /\ Commit(Event(WatchdogInit(State), "__init__", 0))

(* app.start() called from outside the loop's callbacks *)
Start ==
    /\ constructed = "ok"
    /\ Faulty
    /\ Commit(Fault(Event(start(State), "start", 0)))

(* a call_later(retryDelay, self.start) callback comes due *)
RestartFires ==
    /\ timers # <<>>
    /\ Head(timers).rem = 0
    /\ Commit(Event(start([State EXCEPT !.timers = Tail(@)]),
                    "restart", Head(timers).age))

(* create_subprocess_shell completes in the startAsync of frame i *)
SpawnDone(i) ==
    /\ stack[i].pc = "spawn"
    /\ FreeIds(State) # {}
    /\ Commit(Event(spawned(State, i), "spawned", 0))

(* IB.sleep(appStartupTime) is over; ib.connect begins *)
SleepDone ==
    /\ stack # <<>>
    /\ Top(State).pc = "sleep"
    /\ Commit(Event(SetPc(State, Len(stack), "connect"), "connect", 0))

(* connectAsync of frame i succeeds: the application answers *)
ConnectOk(i) ==
    /\ stack[i].pc = "connect"
    /\ \E p \in Procs : procState[p] = "running"
    /\ Commit(Event(SetPc([State EXCEPT !.connected = TRUE], i, "connected"),
                    "connectOk", 0))

(* connectAsync of frame i fails: it calls apiError, then raises *)
ConnectFail(i) ==
    /\ stack[i].pc = "connect"
    /\ LET s == SetPc(State, i, "connfail")
           e == Event(IF apiError THEN [onApiError(s) EXCEPT !.exc = FALSE] ELSE s,
                      "connectFail", 0)
       IN IF \E p \in Procs : procState[p] = "running"
          THEN Faulty /\ Commit(Fault(e))
          ELSE Commit(e)

StartReturnArmsAlways ==
    /\ stack # <<>>
    /\ Top(State).pc \in {"connected", "connfail"}
    /\ Commit(Event(setTimeout(Pop(State), cfg.appTimeout), "started", 0))

(* ib.connect returned: ib.setTimeout(appTimeout); or it raised: pass *)
StartReturn ==
    /\ stack # <<>>
    /\ Top(State).pc \in {"connected", "connfail"}
    /\ Commit(Event(IF Top(State).pc = "connected"
                    THEN setTimeout(Pop(State), cfg.appTimeout)
                    ELSE Pop(State),
                    "started", 0))

(* app.stop() called from outside the loop's callbacks *)
Stop ==
    /\ constructed = "ok"
    /\ Commit(Event(stop(State, "stop"), "stop", 0))

(* the connection layer fails while connected *)
ApiErrorEvent ==
    /\ connected
    /\ apiError
    /\ Faulty
    /\ Commit(Fault(Event(onApiError(State), "onApiError", 0)))

(* the application sends an error message *)
ErrorEvent(errorCode) ==
    /\ connected
    /\ errorCb
    /\ Faulty
    /\ Commit(Fault(Event(onError(State, errorCode), "onError", errorCode)))

(* no traffic for `timeout` seconds: timeoutEvent wakes the watch loop *)
TimeoutEvent ==
    /\ timeout # 0
    /\ Commit(Event(IF watcher = "wait"
                    THEN [State EXCEPT !.timeout = 0, !.watcher = "probe",
                                       !.probeRem = ProbeBound]
                    ELSE [State EXCEPT !.timeout = 0],
                    "timeoutEvent", 0))

(* the probe returns bars within the bound *)
ProbeOk ==
    /\ watcher = "probe"
    /\ connected
    /\ probeRem > 0
    /\ Commit(Event(probed(State, TRUE), "probeOk", 0))

(* the probe returns no bars, raises, or wait_for times out *)
ProbeFail(why) ==
    /\ watcher = "probe"
    /\ why = "empty" => connected /\ probeRem > 0
    /\ why = "raised" => probeRem > 0
    /\ why = "timeout" => probeRem = 0
    /\ IF connected
       THEN Faulty /\ Commit(Fault(Event(probed(State, FALSE), "probeFail", 0)))
       ELSE Commit(Event(probed(State, FALSE), "probeFail", 0))

(* a process ends: by the terminate signal or by itself *)
ProcExit(p) ==
    /\ procState[p] \in {"running", "terminating"}
    /\ IF procState[p] = "running"
       THEN Faulty /\ Commit(Fault(Event([State EXCEPT !.procState[p] = "exited"],
                                         "exit", 0)))
       ELSE Commit(Event([State EXCEPT !.procState[p] = "exited"], "exit", 0))

(* await self._proc.wait() returns in the terminateAsync of frame i; the   *)
(* waiters of a process are woken in the order in which they began to wait *)
TerminateDone(i) ==
    /\ stack[i].pc = "wait"
    /\ procState[stack[i].p] = "exited"
    /\ \A j \in 1..(i - 1) : ~(stack[j].pc = "wait" /\ stack[j].p = stack[i].p)
    /\ LET t == terminateFinish(State)
       IN Commit(Event([SetPc(t, i, IF t.exc THEN "raised" ELSE "done")
                            EXCEPT !.exc = FALSE],
                       "terminated", 0))

(* controller.terminate() returns to the handler on top of the stack *)
StopReturn ==
    /\ stack # <<>>
    /\ Top(State).pc \in {"done", "raised"}
    /\ Commit(Event(AfterStop([Pop(State) EXCEPT !.exc = Top(State).pc = "raised"],
                              Top(State).kind),
                    "stopped", 0))

(* controller.stop() (IBController) called from outside the loop's callbacks *)
ControllerStop(ini) ==
    /\ constructed = "ok"
    /\ Commit(Event(stopAsync(State, ini), "controller.stop", 0))

(* asyncio.open_connection returns or raises in the stopAsync of frame i; *)
(* then writer.write(b'STOP') *)
OpenDone(i, ok) ==
    /\ stack[i].pc = "open"
    /\ Commit(Event(SetPc(State, i, IF ok THEN "drain" ELSE "raised"), "opened", 0))

(* await writer.drain() returns in the stopAsync of frame i *)
DrainDone(i) ==
    /\ stack[i].pc = "drain"
    /\ Commit(Event(stopAsyncWait(State, i), "drained", 0))

MonitorEOFClearsHandle ==
    /\ monState = "running"
    /\ procState[monitor] \in {"exited", "none"}
    /\ Commit(Event([State EXCEPT !.monState = "done", !.proc = 0, !.monitor = 0],
                    "eof", 0))

(* the monitorAsync task held in _monitor reads end-of-stream and ends *)
MonitorEOF ==
    /\ monState = "running"
    /\ procState[monitor] \in {"exited", "none"}
    /\ Commit(Event([State EXCEPT !.monState = "done"], "eof", 0))

(* the loop's clock advances to the next deadline (a call_later or wait_for) *)
Deadlines ==
    {timers[i].rem : i \in 1..Len(timers)} \cup {probeRem}

NextDeadline == MinOf(Deadlines \ {0})

Elapse(n, d) == IF n > d THEN n - d ELSE 0

Tick ==
    /\ Deadlines \ {0} # {}
    /\ LET d == NextDeadline IN
       Commit(Event([State EXCEPT
            !.timers = [i \in 1..Len(timers) |->
                          [timers[i] EXCEPT
                              !.rem = Elapse(@, d),
                              !.age = cfg.retryDelay - Elapse(cfg.retryDelay - @, d)]],
            !.probeRem = Elapse(probeRem, d)],
          "tick", 0))

Next ==
    \/ Start
    \/ RestartFires
    \/ \E i \in 1..Len(stack) : SpawnDone(i)
    \/ SleepDone
    \/ \E i \in 1..Len(stack) : ConnectOk(i)
    \/ \E i \in 1..Len(stack) : ConnectFail(i)
    \/ StartReturn
    \/ Stop
    \/ ApiErrorEvent
    \/ \E c \in ErrorCodes : ErrorEvent(c)
    \/ TimeoutEvent
    \/ ProbeOk
    \/ \E why \in {"empty", "raised", "timeout"} : ProbeFail(why)
    \/ \E p \in Procs : ProcExit(p)
    \/ \E i \in 1..Len(stack) : TerminateDone(i)
    \/ StopReturn
    \/ MonitorEOF
    \/ Tick

Spec == Init /\ [][Next]_vars

SpecRace == InitRace /\ [][Next]_vars

(***************************************************************************)
(* The Watchdog left to itself: its owner starts it and never stops it,    *)
(* the environment injects finitely many faults, and the event loop runs   *)
(* every callback and coroutine that is ready; a process that was sent the *)
(* terminate signal ends, a connect attempt and a probe have an outcome.   *)
(***************************************************************************)
NextLive ==
    \/ Start
    \/ RestartFires
    \/ \E i \in 1..Len(stack) : SpawnDone(i)
    \/ SleepDone
    \/ \E i \in 1..Len(stack) : ConnectOk(i)
    \/ \E i \in 1..Len(stack) : ConnectFail(i)
    \/ StartReturn
    \/ ApiErrorEvent
    \/ ErrorEvent(FatalCode)
    \/ TimeoutEvent
    \/ ProbeOk
    \/ \E why \in {"empty", "raised", "timeout"} : ProbeFail(why)
    \/ \E p \in Procs : ProcExit(p)
    \/ \E i \in 1..Len(stack) : TerminateDone(i)
    \/ StopReturn
    \/ MonitorEOF
    \/ Tick

Fairness ==
    /\ WF_vars(RestartFires)
    /\ WF_vars(\E i \in 1..Len(stack) : SpawnDone(i))
    /\ WF_vars(SleepDone)
    /\ WF_vars(\E i \in 1..Len(stack) : ConnectOk(i) \/ ConnectFail(i))
    /\ WF_vars(StartReturn)
    /\ WF_vars(ProbeOk \/ \E why \in {"empty", "raised", "timeout"} : ProbeFail(why))
    /\ WF_vars(\E p \in Procs : procState[p] = "terminating" /\ ProcExit(p))
    /\ WF_vars(\E i \in 1..Len(stack) : TerminateDone(i))
    /\ WF_vars(StopReturn)
    /\ WF_vars(Tick)

SpecLive == InitLive /\ [][NextLive]_vars /\ Fairness

NextCtor == Construct

SpecCtor == InitCtor /\ [][NextCtor]_vars

(***************************************************************************)
(* The controller driven directly as well (IBController.stop), with the    *)
(* Watchdog started and stopped by its owner, on a connection that raises  *)
(* no error events and does not go idle.                                   *)
(***************************************************************************)
NextCtl ==
    \/ Start
    \/ RestartFires
    \/ \E i \in 1..Len(stack) : SpawnDone(i)
    \/ SleepDone
    \/ \E i \in 1..Len(stack) : ConnectOk(i)
    \/ \E i \in 1..Len(stack) : ConnectFail(i)
    \/ StartReturn
    \/ Stop
    \/ \E ini \in BOOLEAN : ControllerStop(ini)
    \/ \E i \in 1..Len(stack), ok \in BOOLEAN : OpenDone(i, ok)
    \/ \E i \in 1..Len(stack) : DrainDone(i)
    \/ \E p \in Procs : ProcExit(p)
    \/ \E i \in 1..Len(stack) : TerminateDone(i)
    \/ StopReturn
    \/ MonitorEOF
    \/ Tick

SpecCtl == Init /\ [][NextCtl]_vars

SpecCtlRace == InitRace /\ [][NextCtl]_vars

(***************************************************************************)
(* Claims                                                                  *)
(***************************************************************************)
Live == {p \in Procs : procState[p] \in {"running", "terminating"}}

(* C1: in every reachable state at most one spawned and not yet terminated *)
(* process exists per controller.                                          *)
C1_AtMostOneProcess == Cardinality(Live) <= 1

(* C2: in every reachable state at most one delayed restart is pending.    *)
C2_AtMostOneRestart == Len(timers) <= 1

ProbeRestarts == {i \in 1..Len(timers) : timers[i].probe}

(* C3: a failed probe leads to exactly one restart: of the restarts        *)
(* scheduled while the probe or its failure path was in progress (by the   *)
(* watch loop, or by an error or api-error callback delivered meanwhile),  *)
(* at most one is pending.                                                 *)
C3_OneRestartPerProbeFailure == Cardinality(ProbeRestarts) <= 1

OnErrorBegins == evt'.op = "onError" /\ evt'.arg = FatalCode

OnErrorReturns ==
    \/ OnErrorBegins /\ Len(stack') = Len(stack)
    \/ evt'.op = "stopped" /\ stack[Len(stack)].kind = "onError"

(* C4: an error event with code 1100 triggers exactly one restart cycle:    *)
(* onError disconnects the client and terminates the controller, and when  *)
(* the handler returns it has scheduled exactly one start(), due           *)
(* retryDelay seconds later; no start() runs inside the handler, and a     *)
(* scheduled start() runs only once retryDelay seconds have passed.        *)
C4_FatalErrorOneRestart ==
    [][/\ OnErrorBegins =>
             /\ ~connected'
             /\ Len(stack') > Len(stack) => stack'[Len(stack')].kind = "onError"
       /\ OnErrorReturns =>
             /\ ~evt'.raised
             /\ Len(timers') = Len(timers) + 1
             /\ timers'[Len(timers')].rem = cfg.retryDelay
       /\ evt'.op = "restart" => evt'.arg >= cfg.retryDelay]_vars

(* C5: when the probe returns bars within its bound, the watch loop        *)
(* re-arms the idle timeout with appTimeout and goes back to waiting; it   *)
(* calls neither stop() nor scheduleRestart(): the client stays connected, *)
(* the process handle, the processes, the stack and the pending restarts   *)
(* are unchanged.                                                          *)
C5_ProbeOkNoRestart ==
    [][evt'.op = "probeOk" =>
          /\ connected /\ connected'
          /\ timeout' = cfg.appTimeout
          /\ watcher' = "wait"
          /\ ~evt'.raised
          /\ UNCHANGED <<proc, monitor, procState, monState, timers, stack>>]_vars

C5_Witness ==
    /\ evt.op = "probeOk"
    /\ connected
    /\ proc # 0
    /\ procState[proc] = "running"
    /\ timeout = cfg.appTimeout

Detected ==
    \/ evt.op \in {"onApiError", "connectFail", "probeFail"}
    \/ evt.op = "onError" /\ evt.arg = FatalCode

Idle ==
    /\ \A p \in Procs : procState[p] # "running"
    /\ ~connected
    /\ timers = <<>>
    /\ stack = <<>>

(* the bounds of SpecLive never disable a step *)
LiveRoom ==
    /\ Len(stack) < lim.stack
    /\ Len(timers) < lim.timers
    /\ (\E i \in 1..Len(stack) : stack[i].pc = "spawn") => FreeIds(State) # {}

(* C6: under fair scheduling every detected failure (the api-error         *)
(* callback, error 1100, a failed probe) is eventually followed by the     *)
(* controller being started again (a scheduled restart fires) and by a new *)
(* connect attempt, and once a failure was detected the Watchdog does not  *)
(* stay for ever with no live process, no connection and no pending        *)
(* restart.                                                                *)
C6_FailureLeadsToRestart ==
    /\ Detected ~> (evt.op = "restart")
    /\ (evt.op = "restart") ~> (evt.op = "connect")
    /\ (<>Detected) => ([]<>~Idle)

C6_Witness ==
    /\ evt.op = "restart"
    /\ evt.arg = cfg.retryDelay
    /\ stack # <<>>
    /\ Top(State).kind = "start"

(* C7: start() while the controller holds a process handle spawns nothing: *)
(* startAsync returns at once (the caller goes on to its startup sleep),   *)
(* the handle, the monitor and the processes are unchanged.                *)
C7_StartWhileStartedNoop ==
    [][(evt'.op \in {"start", "restart"} /\ proc # 0) =>
          /\ UNCHANGED <<proc, monitor, procState, monState>>
          /\ Len(stack') = Len(stack) + 1
          /\ stack'[Len(stack')].pc = "sleep"]_vars

C7_Witness ==
    /\ evt.op = "start"
    /\ proc # 0
    /\ procState[proc] = "running"
    /\ Cardinality(Live) = 1
    /\ stack # <<>>
    /\ stack[Len(stack)].pc = "sleep"

(* C8: stop()/terminate() with no process handle is a no-op: Watchdog.stop  *)
(* and IBController.stop return at once without raising, send no signal    *)
(* and no command (no process changes state, no call is left waiting),     *)
(* leave handle and monitor None and schedule nothing; a stop() in a       *)
(* stopped, disconnected state changes nothing at all.                     *)
C8_StopWhenStoppedNoop ==
    [][(evt'.op \in {"stop", "controller.stop"} /\ proc = 0) =>
          /\ ~evt'.raised
          /\ monitor = 0
          /\ UNCHANGED <<proc, monitor, procState, monState, stack, timers,
                         watcher, probeRem>>
          /\ evt'.op = "stop" => ~connected' /\ timeout' = 0
          /\ (evt'.op = "controller.stop" \/ (~connected /\ timeout = 0))
                => UNCHANGED <<connected, timeout>>]_vars

C8_Witness ==
    /\ evt.op = "stop"
    /\ proc = 0 /\ monitor = 0
    /\ ~connected
    /\ Live = {}
    /\ stack = <<>>

(* C9: construction succeeds only if a controller is given,                *)
(* 0 < appTimeout < 60 and retryDelay > 0; otherwise it fails (raises)     *)
(* before any callback is registered on the client and before the watch    *)
(* task is created.                                                        *)
C9_ConfigEnforced ==
    constructed # "no" =>
        /\ constructed = "ok" <=>
              /\ cfg.controller # 0
              /\ 0 < cfg.appTimeout /\ cfg.appTimeout < AppTimeoutLimit
              /\ cfg.retryDelay > 0
        /\ constructed = "ok" => apiError /\ errorCb /\ watcher = "wait"
        /\ constructed = "failed" =>
              ~apiError /\ ~errorCb /\ watcher = "none" /\ evt.raised

C9_Witness ==
    /\ constructed = "failed"
    /\ evt.op = "__init__"
    /\ cfg.controller # 0
    /\ cfg.appTimeout = AppTimeoutLimit
    /\ cfg.retryDelay > 0
    /\ ~apiError /\ ~errorCb /\ watcher = "none"

(* C10: an error event whose code is not 1100 changes nothing: not the     *)
(* process handle, the connection, the idle timeout, the pending restarts, *)
(* the watch loop or the stack.                                            *)
C10_OtherErrorIgnored ==
    [][(evt'.op = "onError" /\ evt'.arg # FatalCode) =>
          /\ ~evt'.raised
          /\ UNCHANGED <<proc, monitor, procState, monState, connected, timeout,
                         timers, stack, watcher, probeRem>>]_vars

C10_Witness ==
    /\ evt.op = "onError"
    /\ evt.arg # FatalCode
    /\ connected
    /\ proc # 0
    /\ timeout # 0

(* C11: idle, probe, stop, restart happen in that order: the watch loop    *)
(* issues a probe only in the step of the idle-timeout event, with the     *)
(* timeout armed; a probe fails only while one is outstanding, and in that *)
(* step stop() runs (the client is disconnected, the watch loop is in its  *)
(* failure path or back waiting with a restart scheduled retryDelay        *)
(* ahead); and a scheduled start() begins only when at least retryDelay    *)
(* seconds have passed since it was scheduled.                             *)
C11_IdleProbeStopRestartInOrder ==
    [][/\ (watcher' = "probe" /\ watcher # "probe") =>
             /\ evt'.op = "timeoutEvent"
             /\ timeout # 0
             /\ watcher = "wait"
       /\ evt'.op = "probeFail" =>
             /\ watcher = "probe"
             /\ ~connected'
             /\ timeout' = 0
             /\ watcher' \in {"stop", "wait", "dead"}
             /\ watcher' = "wait" =>
                   /\ Len(timers') = Len(timers) + 1
                   /\ timers'[Len(timers')].rem = cfg.retryDelay
                   /\ timers'[Len(timers')].probe
             /\ \A p \in Procs : procState'[p] # "running" \/ p # proc
       /\ evt'.op = "restart" =>
             /\ Head(timers).rem = 0
             /\ Head(timers).age >= cfg.retryDelay
             /\ stack'[Len(stack')].kind = "start"]_vars

C11_Witness ==
    /\ timers # <<>>
    /\ Head(timers).probe
    /\ Head(timers).rem = 0
    /\ Head(timers).age = cfg.retryDelay
    /\ watcher = "wait"
    /\ ~connected
    /\ proc = 0
    /\ stack = <<>>

ClearingOps ==
    {"stop", "onApiError", "onError", "probeFail", "connectFail", "terminated",
     "drained"}

(* C12: when the output monitor reads end-of-stream it ends without        *)
(* raising and changes neither the process handle nor the monitor          *)
(* reference (nor anything else of the controller or the Watchdog); the    *)
(* handle and the monitor reference are cleared only by steps of stop() /  *)
(* terminate() (terminateAsync, stopAsync).                                *)
C12_MonitorEOFKeepsHandle ==
    [][/\ evt'.op = "eof" =>
             /\ monState = "running" /\ monState' = "done"
             /\ ~evt'.raised
             /\ UNCHANGED <<proc, monitor, procState, connected, timeout,
                            timers, stack, watcher>>
       /\ (proc # 0 /\ proc' = 0) => evt'.op \in ClearingOps
       /\ (monitor # 0 /\ monitor' = 0) => evt'.op \in ClearingOps]_vars

C12_Witness ==
    /\ evt.op = "eof"
    /\ proc # 0
    /\ monitor = proc
    /\ monState = "done"
    /\ procState[proc] = "exited"

StopBegins == evt'.op = "stop"

StopReturns ==
    \/ StopBegins /\ Len(stack') = Len(stack)
    \/ evt'.op = "stopped" /\ stack[Len(stack)].kind = "stop"

(* C13: Watchdog.stop() disconnects the client first (in its first step,   *)
(* before it waits for the controller), and when it returns it has not     *)
(* raised, the client is disconnected and the controller holds no process  *)
(* handle.                                                                 *)
C13_StopLeavesIdle ==
    [][/\ StopBegins => ~connected' /\ timeout' = 0
       /\ StopReturns =>
             /\ ~evt'.raised
             /\ ~connected'
             /\ proc' = 0]_vars

(* C14: a start() connects the client only while the controller holds a    *)
(* process handle: a start() that was in flight when stop() cleared the    *)
(* handle does not connect the client afterwards (a start() begun after    *)
(* the stop() would have set the handle again), nor arm the idle timeout.  *)
C14_StaleStartDoesNotConnect ==
    [][/\ evt'.op = "connectOk" => proc # 0
       /\ (evt'.op = "started" /\ timeout' # 0) =>
             stack[Len(stack)].pc = "connected"]_vars

TerminateOps ==
    {"stop", "onApiError", "onError", "probeFail", "connectFail", "terminated",
     "stopped"}

(* C15: calls of terminateAsync that overlap all complete without raising: *)
(* no controller.terminate() ends with an exception (none dereferences a   *)
(* monitor that another call has already set to None).                     *)
C15_TerminateSerialized ==
    /\ \A i \in 1..Len(stack) : stack[i].pc # "raised"
    /\ evt.op \in TerminateOps => ~evt.raised

C17_WatchLoopNeverDies == constructed = "ok" => watcher \in {"wait", "probe", "stop"}

TerminateBegins ==
    \/ evt'.op \in {"stop", "onApiError", "probeFail", "connectFail"}
    \/ evt'.op = "onError" /\ evt'.arg = FatalCode

(* C18: terminateAsync() on a handle whose process has already exited      *)
(* completes at once (it does not wait) without raising, and leaves the    *)
(* handle None and the monitor cancelled and None.                         *)
C18_ExitedProcessTerminates ==
    [][(TerminateBegins /\ proc # 0 /\ procState[proc] = "exited") =>
          /\ ~evt'.raised
          /\ proc' = 0
          /\ monitor' = 0
          /\ monState' = "none"
          /\ Len(stack') = Len(stack)]_vars

C18_Witness ==
    /\ evt.op = "onError"
    /\ evt.arg = FatalCode
    /\ ~evt.raised
    /\ stack = <<>>
    /\ proc = 0
    /\ monitor = 0
    /\ Len(timers) = 1

StopAsyncOrder ==
    {<<"open", "open">>, <<"open", "drain">>, <<"open", "raised">>,
     <<"drain", "drain">>, <<"drain", "wait">>, <<"drain", "done">>,
     <<"drain", "raised">>, <<"wait", "wait">>, <<"wait", "done">>,
     <<"wait", "raised">>, <<"done", "done">>, <<"raised", "raised">>}

(* C19: IBController.stopAsync() on a live handle goes through its steps   *)
(* in order (ini file read, connection opened and STOP written, flushed    *)
(* and closed, process exit awaited, handle and monitor cleared); the      *)
(* handle is cleared only once its process has exited; and if the port     *)
(* cannot be read or the connection cannot be opened, stopAsync raises     *)
(* with the handle, the monitor and the process as they were.              *)
C19_StopAsyncInOrder ==
    [][/\ (evt'.op = "controller.stop" /\ proc # 0) =>
             /\ UNCHANGED <<proc, monitor, monState>>
             /\ procState' = procState
             /\ IF evt'.raised
                THEN stack' = stack
                ELSE stack' = Append(stack, [kind |-> "stopAsync", pc |-> "open",
                                             p |-> 0])
       /\ evt'.op = "opened" =>
             /\ UNCHANGED <<proc, monitor, monState>>
             /\ procState' = procState
       /\ \A i \in 1..Len(stack) :
             (stack[i].kind = "stopAsync" /\ Len(stack') >= i) =>
                 /\ stack'[i].kind = "stopAsync"
                 /\ <<stack[i].pc, stack'[i].pc>> \in StopAsyncOrder
                 /\ (stack[i].pc # "done" /\ stack'[i].pc = "done") =>
                       /\ procState[proc] = "exited"
                       /\ proc' = 0 /\ monitor' = 0]_vars

C19_Witness ==
    /\ stack # <<>>
    /\ Top(State).kind = "stopAsync"
    /\ Top(State).pc = "done"
    /\ evt.op = "terminated"
    /\ proc = 0
    /\ monitor = 0

(* C20: whenever the controller is suspended (in every state between two   *)
(* steps) the process handle is None if and only if the monitor reference  *)
(* is None.                                                                *)
C20_HandleIffMonitor == (proc = 0) <=> (monitor = 0)

C20_Witness ==
    /\ proc # 0
    /\ monitor # 0
    /\ stack # <<>>
    /\ Top(State).kind = "stopAsync"
    /\ Top(State).pc = "wait"

====
